---- MODULE Spec2Model ----
(***************************************************************************)
(* Model of prism-indexer's chunker (src/prism/prism-indexer/src/chunker.rs)*)
(*                                                                         *)
(* Text is a sequence of one-character strings, so that lines(), join,     *)
(* trim, starts_with and len are computed, not assumed.  Line numbers are  *)
(* 1-based as in CodeChunk; Rust slice indices are 0-based and shifted by  *)
(* one where a TLA+ sequence is indexed.                                   *)
(***************************************************************************)
EXTENDS Integers, Sequences, FiniteSets, TLC

VARIABLES
    source,         \* chunk_code: the source text
    language,       \* chunk_code: the language id, copied verbatim
    imports,        \* chunk_code: extract_imports' result
    functions,      \* chunk_code: extract_functions' result, in extractor order
    classes,        \* chunk_code: extract_classes' result, in extractor order
    covered_lines,  \* chunk_code: one boolean per source line
    chunks,         \* chunk_code: the result vector / split_large_chunk: its result
    pc,             \* position in chunk_code or in the caller of split_large_chunk
    idx,            \* index of the next descriptor in the running for loop
    next_id,        \* Uuid::new_v4(): ids are fresh, modelled by a counter
    chunk,          \* split_large_chunk: the input chunk
    target_size,    \* split_large_chunk: the token budget
    again,          \* split_large_chunk applied once more to each element of chunks
    lookup          \* language registry: what the three lookups returned for `language`

vars == <<source, language, imports, functions, classes, covered_lines,
          chunks, pc, idx, next_id, chunk, target_size, again, lookup>>

(***************************************************************************)
(* Program constants                                                       *)
(***************************************************************************)
MIN_CHUNK_SIZE == 50
MAX_LINES_PER_CHUNK == 200
MIN_LINES_PER_CHUNK == 5

(***************************************************************************)
(* Bounds of the model                                                     *)
(***************************************************************************)
MaxHead == 3           \* most lines of the varied head of a source given to chunk_code
TailLen == 5           \* lines of the uniform tail that may follow the head
MaxDescLine == 3       \* last source line a descriptor may end at
MaxSpan == 2           \* most lines a descriptor spans
MaxClasses == 2        \* most class descriptors
MaxFuncs == 2          \* most function descriptors
MaxDescriptors == 3    \* most descriptors, classes and functions together
MaxBadLines == 2       \* most lines of a source paired with degraded descriptors
MaxSplitLines == 4     \* most lines of a chunk given to split_large_chunk
MaxTarget == 6         \* largest token budget given to split_large_chunk
MaxOver == 1           \* a long source's filling exceeds MAX_LINES_PER_CHUNK by at most this

Min(a, b) == IF a < b THEN a ELSE b
Max(a, b) == IF a < b THEN b ELSE a

\* usize::saturating_sub
saturating_sub(a, b) == IF a > b THEN a - b ELSE 0

(***************************************************************************)
(* Strings                                                                 *)
(***************************************************************************)
NL == "\n"

IsWhite(c) == c \in {" ", NL, "\t"}

\* Index of the first character at or after i that is not whitespace (Len(s) + 1 if none)
TrimStart(s, i) ==
    CHOOSE a \in i..(Len(s) + 1) :
        /\ a = Len(s) + 1 \/ ~IsWhite(s[a])
        /\ \A k \in i..(a - 1) : IsWhite(s[k])

\* Index of the last character at or before j that is not whitespace (0 if none)
TrimEnd(s, j) ==
    j - (CHOOSE d \in 0..j :
            /\ d = j \/ ~IsWhite(s[j - d])
            /\ \A k \in (j - d + 1)..j : IsWhite(s[k]))

\* str::trim
Trim(s) == SubSeq(s, TrimStart(s, 1), TrimEnd(s, Len(s)))

\* str::starts_with
StartsWith(s, p) == Len(s) >= Len(p) /\ SubSeq(s, 1, Len(p)) = p

\* The elements lo..hi of ls with "\n" between neighbours
RECURSIVE JoinRange(_, _, _)
JoinRange(ls, lo, hi) ==
    IF lo > hi THEN <<>>
    ELSE IF lo = hi THEN ls[lo]
    ELSE LET mid == (lo + hi) \div 2
         IN JoinRange(ls, lo, mid) \o <<NL>> \o JoinRange(ls, mid + 1, hi)

\* [&str]::join("\n")
Join(ls) == JoinRange(ls, 1, Len(ls))

\* The positions of the "\n" characters of t, ascending
SplitNL(t) ==
    LET IsNL(i) == t[i] = NL
    IN SelectSeq([i \in 1..Len(t) |-> i], IsNL)

\* str::lines().collect(): split at every "\n"; a final empty piece is not a line
Lines(t) ==
    LET nl == SplitNL(t)
        first(k) == IF k = 1 THEN 1 ELSE nl[k - 1] + 1
        last(k) == IF k > Len(nl) THEN Len(t) ELSE nl[k] - 1
        count == IF nl # <<>> /\ nl[Len(nl)] = Len(t) THEN Len(nl)
                 ELSE IF t = <<>> THEN 0 ELSE Len(nl) + 1
    IN [k \in 1..count |-> SubSeq(t, first(k), last(k))]

\* The slice lines[a..b] of a 0-based vector
Slice(ls, a, b) == SubSeq(ls, a + 1, b)

(***************************************************************************)
(* estimate_tokens, extract_dependencies                                   *)
(***************************************************************************)
estimate_tokens(text) ==
    IF text = <<>> THEN 0 ELSE Max(Len(text) \div 4, 1)

IsDependencyLine(line) ==
    \/ StartsWith(line, <<"i", "m", "p", "o", "r", "t", " ">>)
    \/ StartsWith(line, <<"u", "s", "e", " ">>)
    \/ StartsWith(line, <<"r", "e", "q", "u", "i", "r", "e", "(">>)

\* .map(|line| line.trim()).filter(...).collect()
DependenciesOf(ls) ==
    SelectSeq([k \in 1..Len(ls) |-> Trim(ls[k])], IsDependencyLine)

extract_dependencies(text) == DependenciesOf(Lines(text))

(***************************************************************************)
(* CodeChunk                                                               *)
(***************************************************************************)
CodeChunk(id, text, start_line, end_line, tokens, lang, funcs, clss, imps) ==
    [id |-> id, text |-> text, start_line |-> start_line, end_line |-> end_line,
     tokens |-> tokens, language |-> lang, functions |-> funcs, classes |-> clss,
     imports |-> imps, dependencies |-> extract_dependencies(text)]

(***************************************************************************)
(* find_preceding_context: i runs over (0..3).rev(), that is 2, 1, 0.      *)
(* An index past the end of lines is an out-of-bounds panic: PANIC.        *)
(***************************************************************************)
PANIC == -1

IsContextLine(line) ==
    \/ Trim(line) = <<>>
    \/ StartsWith(Trim(line), <<"/", "/">>)
    \/ StartsWith(Trim(line), <<"*">>)

RECURSIVE ContextLoop(_, _, _, _)
ContextLoop(lines, start_idx, i, context_start) ==
    IF i < 0 THEN context_start
    ELSE IF start_idx > i
         THEN LET k == start_idx - i - 1
              IN IF k >= Len(lines) THEN PANIC
                 ELSE IF IsContextLine(lines[k + 1])
                      THEN ContextLoop(lines, start_idx, i - 1, k)
                      ELSE context_start
         ELSE ContextLoop(lines, start_idx, i - 1, context_start)

find_preceding_context(lines, start_idx) == ContextLoop(lines, start_idx, 2, start_idx)

(***************************************************************************)
(* mark_lines_covered                                                      *)
(***************************************************************************)
\* mark_lines_covered without the shift from 1-based lines to 0-based indices
mark_lines_covered_unshifted(covered, start_line, end_line) ==
    LET start_idx == start_line
        end_idx == Min(end_line, Len(covered))
    IN [k \in 1..Len(covered) |->
            IF start_idx <= k - 1 /\ k - 1 < end_idx THEN TRUE ELSE covered[k]]

mark_lines_covered(covered, start_line, end_line) ==
    LET start_idx == saturating_sub(start_line, 1)
        end_idx == Min(end_line, Len(covered))
    IN [k \in 1..Len(covered) |->
            IF start_idx <= k - 1 /\ k - 1 < end_idx THEN TRUE ELSE covered[k]]

(***************************************************************************)
(* is_inside_class                                                         *)
(***************************************************************************)
\* is_inside_class without the test of the function's end
is_inside_class_start_only(func, clss) ==
    \E j \in 1..Len(clss) : func.start_line >= clss[j].start_line

is_inside_class(func, clss) ==
    \E j \in 1..Len(clss) :
        func.start_line >= clss[j].start_line /\ func.end_line <= clss[j].end_line

(***************************************************************************)
(* create_class_chunk; the slice source_lines[start_idx..end_idx] panics   *)
(* when start_idx > end_idx                                                *)
(***************************************************************************)
class_chunk_panics(class, src) ==
    saturating_sub(class.start_line, 1) > Min(class.end_line, Len(Lines(src)))

create_class_chunk(class, src, lang, imps, id) ==
    LET source_lines == Lines(src)
        start_idx == saturating_sub(class.start_line, 1)
        end_idx == Min(class.end_line, Len(source_lines))
        text == Join(Slice(source_lines, start_idx, end_idx))
    IN CodeChunk(id, text, class.start_line, class.end_line, estimate_tokens(text),
                 lang, class.methods, <<class>>, imps)

(***************************************************************************)
(* create_function_chunk; panics inside find_preceding_context or at the   *)
(* slice source_lines[context_start..end_idx] when context_start > end_idx *)
(***************************************************************************)
function_chunk_panics(func, src) ==
    LET source_lines == Lines(src)
        start_idx == saturating_sub(func.start_line, 1)
        end_idx == Min(func.end_line, Len(source_lines))
        context_start == find_preceding_context(source_lines, start_idx)
    IN context_start = PANIC \/ context_start > end_idx

\* create_function_chunk reporting the construct's start line instead of the context's
create_function_chunk_own_start(func, src, lang, imps, id) ==
    LET source_lines == Lines(src)
        start_idx == saturating_sub(func.start_line, 1)
        end_idx == Min(func.end_line, Len(source_lines))
        context_start == find_preceding_context(source_lines, start_idx)
        text == Join(Slice(source_lines, context_start, end_idx))
    IN CodeChunk(id, text, func.start_line, func.end_line, estimate_tokens(text),
                 lang, <<func>>, <<>>, imps)

create_function_chunk(func, src, lang, imps, id) ==
    LET source_lines == Lines(src)
        start_idx == saturating_sub(func.start_line, 1)
        end_idx == Min(func.end_line, Len(source_lines))
        context_start == find_preceding_context(source_lines, start_idx)
        text == Join(Slice(source_lines, context_start, end_idx))
    IN CodeChunk(id, text, context_start + 1, func.end_line, estimate_tokens(text),
                 lang, <<func>>, <<>>, imps)

(***************************************************************************)
(* create_uncovered_chunks                                                 *)
(***************************************************************************)
\* while start_idx < covered_lines.len() && covered_lines[start_idx]: where it stops
NextUncovered(covered, k) ==
    CHOOSE e \in k..Len(covered) :
        /\ e = Len(covered) \/ ~covered[e + 1]
        /\ \A j \in (k + 1)..e : covered[j]

\* The section running to the end of the file whatever is covered
SectionEnd_to_last_line(covered, k) == Len(covered)

\* while end_idx < covered_lines.len() && !covered_lines[end_idx]: where it stops
SectionEnd(covered, k) ==
    CHOOSE e \in k..Len(covered) :
        /\ e = Len(covered) \/ covered[e + 1]
        /\ \A j \in (k + 1)..e : ~covered[j]

\* The window loop measuring the window's text without trimming it
RECURSIVE Windows_untrimmed(_, _, _, _, _, _, _, _)
Windows_untrimmed(source_lines, i, end_idx, chunk_size, lang, imps, id, acc) ==
    IF i >= end_idx THEN acc
    ELSE LET chunk_end == Min(i + chunk_size, end_idx)
             text == Join(Slice(source_lines, i, chunk_end))
         IN Windows_untrimmed(source_lines, i + chunk_size, end_idx, chunk_size, lang, imps, id,
                    IF Len(text) >= MIN_CHUNK_SIZE
                    THEN Append(acc, CodeChunk(id + Len(acc), text, i + 1, chunk_end,
                                               estimate_tokens(text), lang, <<>>, <<>>, imps))
                    ELSE acc)

\* for i in (start_idx..end_idx).step_by(chunk_size)
RECURSIVE Windows(_, _, _, _, _, _, _, _)
Windows(source_lines, i, end_idx, chunk_size, lang, imps, id, acc) ==
    IF i >= end_idx THEN acc
    ELSE LET chunk_end == Min(i + chunk_size, end_idx)
             text == Join(Slice(source_lines, i, chunk_end))
         IN Windows(source_lines, i + chunk_size, end_idx, chunk_size, lang, imps, id,
                    IF Len(Trim(text)) >= MIN_CHUNK_SIZE
                    THEN Append(acc, CodeChunk(id + Len(acc), text, i + 1, chunk_end,
                                               estimate_tokens(text), lang, <<>>, <<>>, imps))
                    ELSE acc)

RECURSIVE Sections(_, _, _, _, _, _, _)
Sections(covered, source_lines, from, lang, imps, id, acc) ==
    LET start_idx == NextUncovered(covered, from)
    IN IF start_idx >= Len(covered) THEN acc
       ELSE LET end_idx == SectionEnd(covered, start_idx)
                lines_count == end_idx - start_idx
            IN Sections(covered, source_lines, end_idx, lang, imps, id,
                        IF lines_count >= MIN_LINES_PER_CHUNK
                        THEN Windows(source_lines, start_idx, end_idx,
                                     Min(MAX_LINES_PER_CHUNK, lines_count),
                                     lang, imps, id, acc)
                        ELSE acc)

create_uncovered_chunks(covered, src, lang, imps, id) ==
    Sections(covered, Lines(src), 0, lang, imps, id, <<>>)

(***************************************************************************)
(* Language registry (language.rs)                                         *)
(***************************************************************************)
LanguageConfig_typescript ==
    [preferred_chunk_size |-> 512, max_lines |-> 200,
     include_docs |-> TRUE, include_imports |-> TRUE,
     function_nodes |-> <<"function_declaration", "function_expression", "arrow_function",
                          "method_definition", "generator_function_declaration">>,
     class_nodes |-> <<"class_declaration", "class_expression">>,
     interface_nodes |-> <<"interface_declaration", "type_alias_declaration",
                           "enum_declaration">>,
     import_nodes |-> <<"import_statement", "import_declaration", "export_statement">>]

LanguageConfig_python ==
    [preferred_chunk_size |-> 512, max_lines |-> 200,
     include_docs |-> TRUE, include_imports |-> TRUE,
     function_nodes |-> <<"function_definition", "lambda">>,
     class_nodes |-> <<"class_definition">>,
     interface_nodes |-> <<>>,
     import_nodes |-> <<"import_statement", "import_from_statement",
                        "future_import_statement">>]

LanguageConfig_rust ==
    [preferred_chunk_size |-> 512, max_lines |-> 200,
     include_docs |-> TRUE, include_imports |-> TRUE,
     function_nodes |-> <<"function_item", "function_signature_item", "closure_expression">>,
     class_nodes |-> <<"struct_item", "enum_item", "impl_item">>,
     interface_nodes |-> <<"trait_item", "type_alias_item">>,
     import_nodes |-> <<"use_declaration", "mod_item", "use_wildcard">>]

LanguageConfig_go ==
    [preferred_chunk_size |-> 512, max_lines |-> 200,
     include_docs |-> TRUE, include_imports |-> TRUE,
     function_nodes |-> <<"function_declaration", "method_declaration">>,
     class_nodes |-> <<"type_declaration", "type_spec">>,
     interface_nodes |-> <<"interface_declaration", "interface_type">>,
     import_nodes |-> <<"import_declaration", "import_spec">>]

LanguageConfig_java ==
    [preferred_chunk_size |-> 512, max_lines |-> 200,
     include_docs |-> TRUE, include_imports |-> TRUE,
     function_nodes |-> <<"method_declaration", "constructor_declaration",
                          "lambda_expression">>,
     class_nodes |-> <<"class_declaration", "enum_declaration", "record_declaration">>,
     interface_nodes |-> <<"interface_declaration", "annotation_declaration">>,
     import_nodes |-> <<"import_declaration">>]

LanguageConfig_cpp ==
    [preferred_chunk_size |-> 512, max_lines |-> 200,
     include_docs |-> TRUE, include_imports |-> TRUE,
     function_nodes |-> <<"function_definition", "function_declarator",
                          "lambda_expression">>,
     class_nodes |-> <<"class_specifier", "struct_specifier", "union_specifier">>,
     interface_nodes |-> <<>>,
     import_nodes |-> <<"include_declaration", "using_declaration">>]

\* match language { ... }: string patterns match by equality, case included
get_language_config(id) ==
    IF id \in {"typescript", "javascript"} THEN LanguageConfig_typescript
    ELSE IF id = "python" THEN LanguageConfig_python
    ELSE IF id = "rust" THEN LanguageConfig_rust
    ELSE IF id = "go" THEN LanguageConfig_go
    ELSE IF id = "java" THEN LanguageConfig_java
    ELSE IF id \in {"cpp", "c++"} THEN LanguageConfig_cpp
    ELSE LanguageConfig_typescript

is_supported_language(id) ==
    id \in {"typescript", "javascript", "python", "rust", "go", "java", "cpp"}

supported_languages ==
    <<"typescript", "javascript", "python", "rust", "go", "java", "cpp">>

\* No lookup made yet: each field holds the result once its lookup has run
NoLookup == [config |-> <<>>, supported |-> <<>>, listed |-> <<>>]

\* Language ids handed to the registry: the known ones, spellings that differ in case
\* only, aliases, and unknown ids
LanguageIds ==
    {"typescript", "javascript", "python", "rust", "go", "java", "cpp", "c++",
     "TypeScript", "JavaScript", "Python", "RUST", "Go", "JAVA", "CPP", "C++",
     "cobol", "ts", "py", ""}

LanguageInit ==
    /\ language \in LanguageIds
    /\ lookup = NoLookup
    /\ pc = "registry"
    /\ source = <<>>
    /\ imports = <<>>
    /\ functions = <<>>
    /\ classes = <<>>
    /\ covered_lines = <<>>
    /\ chunks = <<>>
    /\ idx = 0
    /\ next_id = 1
    /\ chunk = [id |-> 0]
    /\ target_size = 0
    /\ again = <<>>

RegistryUnchanged ==
    UNCHANGED <<source, language, imports, functions, classes, covered_lines,
                chunks, pc, idx, next_id, chunk, target_size, again>>

\* let config = get_language_config(language)
GetLanguageConfig ==
    /\ pc = "registry" /\ lookup.config = <<>>
    /\ lookup' = [lookup EXCEPT !.config = <<get_language_config(language)>>]
    /\ RegistryUnchanged

\* let supported = is_supported_language(language)
IsSupportedLanguage ==
    /\ pc = "registry" /\ lookup.supported = <<>>
    /\ lookup' = [lookup EXCEPT !.supported = <<is_supported_language(language)>>]
    /\ RegistryUnchanged

\* let listed = supported_languages()
SupportedLanguages ==
    /\ pc = "registry" /\ lookup.listed = <<>>
    /\ lookup' = [lookup EXCEPT !.listed = <<supported_languages>>]
    /\ RegistryUnchanged

LanguageNext == GetLanguageConfig \/ IsSupportedLanguage \/ SupportedLanguages

LanguageSpec == LanguageInit /\ [][LanguageNext]_vars

(***************************************************************************)
(* Inputs of chunk_code: the source text and the extractor's output        *)
(***************************************************************************)
CodeLine == <<"u", "s", "e", " ", "a", ":", ":", "b", "c", ";">>
SlashLine == <<"/", "/", " ", "c">>
BlankLine == <<>>
LineKinds == {CodeLine, SlashLine, BlankLine}

SeqsUpTo(S, n) == UNION {[1..k -> S] : k \in 0..n}

Tails == {<<>>, [k \in 1..TailLen |-> CodeLine], [k \in 1..TailLen |-> SlashLine]}

Sources == {Join(h \o t) : h \in SeqsUpTo(LineKinds, MaxHead), t \in Tails}

Languages == {"typescript"}
ImportLists == {<<"std::fmt">>}

FuncNames == <<"f1", "f2", "f3", "f4">>
ClassNames == <<"A", "B", "C", "D">>

\* Line ranges lying inside a source of n lines
Ranges(n) ==
    {r \in [start_line : 1..Min(n, MaxDescLine), end_line : 1..Min(n, MaxDescLine)] :
        r.start_line <= r.end_line /\ r.end_line - r.start_line < MaxSpan}

\* Any line ranges, inside the source or not
AnyRanges(n) == [start_line : 0..(n + 2), end_line : 0..(n + 2)]

DescriptorRanges(n, degraded) == IF degraded THEN AnyRanges(n) ELSE Ranges(n)

FunctionInfos(rs) ==
    [j \in 1..Len(rs) |->
        [name |-> FuncNames[j], start_line |-> rs[j].start_line, end_line |-> rs[j].end_line]]

\* A class descriptor lists as its methods the functions lying in its range
ClassInfos(rs, funcs) ==
    [j \in 1..Len(rs) |->
        [name |-> ClassNames[j], start_line |-> rs[j].start_line, end_line |-> rs[j].end_line,
         methods |-> SelectSeq(funcs, LAMBDA f : f.start_line >= rs[j].start_line
                                                 /\ f.end_line <= rs[j].end_line)]]

NoChunk == [id |-> 0]

InitChunk(srcs, degraded, maxc, maxf, maxd) ==
    /\ source \in srcs
    /\ language \in Languages
    /\ imports \in ImportLists
    /\ \E fr \in SeqsUpTo(DescriptorRanges(Len(Lines(source)), degraded), maxf) :
       \E cr \in SeqsUpTo(DescriptorRanges(Len(Lines(source)), degraded), maxc) :
          /\ Len(fr) + Len(cr) <= maxd
          /\ functions = FunctionInfos(fr)
          /\ classes = ClassInfos(cr, FunctionInfos(fr))
    /\ covered_lines = [k \in 1..Len(Lines(source)) |-> FALSE]
    /\ chunks = <<>>
    /\ pc = "classes"
    /\ idx = 1
    /\ next_id = 1
    /\ chunk = NoChunk
    /\ target_size = 0
    /\ again = <<>>
    /\ lookup = NoLookup

Init == InitChunk(Sources, FALSE, MaxClasses, MaxFuncs, MaxDescriptors)

(***************************************************************************)
(* chunk_code                                                              *)
(***************************************************************************)
\* Inserting at the front instead of Vec::push
push_front(v, x) == <<x>> \o v

\* Vec::push
push(v, x) == Append(v, x)

Panic ==
    /\ pc' = "panic"
    /\ UNCHANGED <<lookup, source, language, imports, functions, classes, covered_lines,
                   chunks, idx, next_id, chunk, target_size, again>>

\* One iteration of `for class in &classes`
ProcessClass ==
    /\ pc = "classes" /\ idx <= Len(classes)
    /\ IF class_chunk_panics(classes[idx], source)
       THEN Panic
       ELSE LET c == create_class_chunk(classes[idx], source, language, imports, next_id)
            IN /\ covered_lines' = mark_lines_covered(covered_lines, c.start_line, c.end_line)
               /\ chunks' = push(chunks, c)
               /\ next_id' = next_id + 1
               /\ idx' = idx + 1
               /\ UNCHANGED <<lookup, source, language, imports, functions, classes, pc,
                              chunk, target_size, again>>

ClassesDone ==
    /\ pc = "classes" /\ idx > Len(classes)
    /\ pc' = "functions"
    /\ idx' = 1
    /\ UNCHANGED <<lookup, source, language, imports, functions, classes, covered_lines,
                   chunks, next_id, chunk, target_size, again>>

\* One iteration of `for func in &functions`
ProcessFunction ==
    /\ pc = "functions" /\ idx <= Len(functions)
    /\ IF is_inside_class(functions[idx], classes)
       THEN /\ idx' = idx + 1
            /\ UNCHANGED <<lookup, source, language, imports, functions, classes,
                           covered_lines, chunks, pc, next_id, chunk, target_size, again>>
       ELSE IF function_chunk_panics(functions[idx], source)
       THEN Panic
       ELSE LET c == create_function_chunk(functions[idx], source, language, imports, next_id)
            IN /\ covered_lines' = mark_lines_covered(covered_lines, c.start_line, c.end_line)
               /\ chunks' = push(chunks, c)
               /\ next_id' = next_id + 1
               /\ idx' = idx + 1
               /\ UNCHANGED <<lookup, source, language, imports, functions, classes, pc,
                              chunk, target_size, again>>

\* create_uncovered_chunks, chunks.extend, return
Uncovered ==
    /\ pc = "functions" /\ idx > Len(functions)
    /\ LET u == create_uncovered_chunks(covered_lines, source, language, imports, next_id)
       IN /\ chunks' = chunks \o u
          /\ next_id' = next_id + Len(u)
    /\ pc' = "done"
    /\ UNCHANGED <<lookup, source, language, imports, functions, classes, covered_lines,
                   idx, chunk, target_size, again>>

Next == ProcessClass \/ ClassesDone \/ ProcessFunction \/ Uncovered

Spec == Init /\ [][Next]_vars

(***************************************************************************)
(* chunk_code on descriptors whose line bounds need not lie in the source  *)
(***************************************************************************)
BadSources == {Join(h) : h \in SeqsUpTo(LineKinds, MaxBadLines)}

DegradedInit == InitChunk(BadSources, TRUE, 1, 1, 2)

DegradedSpec == DegradedInit /\ [][Next]_vars

(***************************************************************************)
(* chunk_code on sources with uncovered runs around MIN_LINES_PER_CHUNK    *)
(* and MAX_LINES_PER_CHUNK lines                                           *)
(***************************************************************************)
XLine == <<"x">>
WideLine == [k \in 1..MIN_CHUNK_SIZE |-> "w"]
NearLine == [k \in 1..(MIN_CHUNK_SIZE - 1) |-> "n"]

LongHeads == {<<>>, <<CodeLine>>, <<SlashLine, SlashLine>>}

\* n equal lines
Fill(line, n) == [k \in 1..n |-> line]

LongFillings ==
    {Fill(l, n) : l \in {XLine, BlankLine},
                  n \in (MAX_LINES_PER_CHUNK - 1)..(MAX_LINES_PER_CHUNK + MaxOver)}
    \cup {Fill(l, n) : l \in {XLine, WideLine},
                       n \in (MIN_LINES_PER_CHUNK - 1)..MIN_LINES_PER_CHUNK}

LongTails ==
    {<<>>, <<WideLine>>, <<BlankLine, NearLine>>, <<WideLine, XLine, XLine, XLine, XLine>>}

LongSources == {Join(h \o f \o t) : h \in LongHeads, f \in LongFillings, t \in LongTails}

LongInit == InitChunk(LongSources, FALSE, 1, 1, 2)

LongSpec == LongInit /\ [][Next]_vars

(***************************************************************************)
(* split_large_chunk                                                       *)
(***************************************************************************)
\* SplitPiece estimating the tokens from the joined text instead of the running sum
SplitPiece_text_tokens(c, lines, current_start, i, current_size, id) ==
    [c EXCEPT !.id = id,
              !.text = Join(Slice(lines, current_start, i)),
              !.start_line = c.start_line + current_start,
              !.end_line = c.start_line + i,
              !.tokens = estimate_tokens(Join(Slice(lines, current_start, i)))]

\* The sub-chunk of lines[current_start..i], closed inside the loop
SplitPiece(c, lines, current_start, i, current_size, id) ==
    [c EXCEPT !.id = id,
              !.text = Join(Slice(lines, current_start, i)),
              !.start_line = c.start_line + current_start,
              !.end_line = c.start_line + i,
              !.tokens = current_size]

\* The final sub-chunk, lines[current_start..]
SplitFinal(c, lines, current_start, current_size, id) ==
    [c EXCEPT !.id = id,
              !.text = Join(Slice(lines, current_start, Len(lines))),
              !.start_line = c.start_line + current_start,
              !.end_line = c.end_line,
              !.tokens = current_size]

\* SplitLoop with the test "at least one line is accumulated" off by one
RECURSIVE SplitLoopTwoLines(_, _, _, _, _, _, _, _)
SplitLoopTwoLines(c, lines, target, i, current_start, current_size, id, acc) ==
    IF i >= Len(lines)
    THEN (IF current_start < Len(lines)
          THEN Append(acc, SplitFinal(c, lines, current_start, current_size, id + Len(acc)))
          ELSE acc)
    ELSE LET line_tokens == estimate_tokens(lines[i + 1])
         IN IF current_size + line_tokens > target /\ current_start + 1 < i
            THEN SplitLoopTwoLines(c, lines, target, i + 1, i, line_tokens, id,
                                   Append(acc, SplitPiece(c, lines, current_start, i,
                                                          current_size, id + Len(acc))))
            ELSE SplitLoopTwoLines(c, lines, target, i + 1, current_start,
                                   current_size + line_tokens, id, acc)

\* for (i, line) in lines.iter().enumerate(), then the final chunk
RECURSIVE SplitLoop(_, _, _, _, _, _, _, _)
SplitLoop(c, lines, target, i, current_start, current_size, id, acc) ==
    IF i >= Len(lines)
    THEN (IF current_start < Len(lines)
          THEN Append(acc, SplitFinal(c, lines, current_start, current_size, id + Len(acc)))
          ELSE acc)
    ELSE LET line_tokens == estimate_tokens(lines[i + 1])
         IN IF current_size + line_tokens > target /\ current_start < i
            THEN SplitLoop(c, lines, target, i + 1, i, line_tokens, id,
                           Append(acc, SplitPiece(c, lines, current_start, i,
                                                  current_size, id + Len(acc))))
            ELSE SplitLoop(c, lines, target, i + 1, current_start,
                           current_size + line_tokens, id, acc)

\* split_large_chunk with the budget test strict
split_large_chunk_strict(c, target, id) ==
    IF c.tokens < target
    THEN <<c>>
    ELSE SplitLoop(c, Lines(c.text), target, 0, 0, 0, id, <<>>)

split_large_chunk(c, target, id) ==
    IF c.tokens <= target
    THEN <<c>>
    ELSE SplitLoop(c, Lines(c.text), target, 0, 0, 0, id, <<>>)

\* Ids drawn by one call
IdsUsed(c, target) == IF c.tokens <= target THEN 0 ELSE Len(split_large_chunk(c, target, 0))

\* split_large_chunk applied to each chunk of cs in turn, results concatenated
RECURSIVE SplitEach(_, _, _)
SplitEach(cs, target, id) ==
    IF cs = <<>> THEN <<>>
    ELSE split_large_chunk(Head(cs), target, id)
         \o SplitEach(Tail(cs), target, id + IdsUsed(Head(cs), target))

(***************************************************************************)
(* Inputs of split_large_chunk: a chunk as chunk_code builds it (text the  *)
(* join of its lines, tokens its estimate) and a budget                    *)
(***************************************************************************)
EmptyLine == <<>>
Line3 == <<"a", "b", "c">>
Line7 == <<"/", "/", " ", "a", "b", "c", "d">>
Line16 == <<"u", "s", "e", " ", "a", "b", "c", ":", ":", "d", "e", "f", "g", "h", "i", ";">>
SplitLineKinds == {EmptyLine, Line3, Line7, Line16}

StartLines == {1, 3}

InputChunk(ls, start) ==
    CodeChunk(1, Join(ls), start, start + Len(ls) - 1, estimate_tokens(Join(ls)),
              "typescript",
              <<[name |-> "f1", start_line |-> start, end_line |-> start + Len(ls) - 1]>>,
              <<>>, <<"std::fmt">>)

SplitInit ==
    /\ \E ls \in SeqsUpTo(SplitLineKinds, MaxSplitLines) \ {<<>>} :
       \E start \in StartLines :
          chunk = InputChunk(ls, start)
    /\ target_size \in 0..MaxTarget
    /\ chunks = <<>>
    /\ again = <<>>
    /\ pc = "ready"
    /\ next_id = 2
    /\ source = <<>>
    /\ language = "typescript"
    /\ imports = <<>>
    /\ functions = <<>>
    /\ classes = <<>>
    /\ covered_lines = <<>>
    /\ idx = 0
    /\ lookup = NoLookup

\* let split_chunks = split_large_chunk(chunk, target_size)
Split ==
    /\ pc = "ready"
    /\ chunks' = split_large_chunk(chunk, target_size, next_id)
    /\ next_id' = next_id + IdsUsed(chunk, target_size)
    /\ pc' = "split"
    /\ UNCHANGED <<lookup, source, language, imports, functions, classes, covered_lines, idx,
                   chunk, target_size, again>>

\* split_large_chunk applied again, with the same budget, to every chunk of the result
SplitAgain ==
    /\ pc = "split"
    /\ again' = SplitEach(chunks, target_size, next_id)
    /\ pc' = "resplit"
    /\ UNCHANGED <<lookup, source, language, imports, functions, classes, covered_lines, idx,
                   chunk, target_size, chunks, next_id>>

SplitNext == Split \/ SplitAgain

SplitSpec == SplitInit /\ [][SplitNext]_vars

(***************************************************************************)
(* Properties of split_large_chunk, checked under SplitSpec                *)
(***************************************************************************)
Returned == pc \in {"split", "resplit"}

\* C1: the sub-chunks' line ranges, in order, partition the parent's range: the first
\* starts at the parent's start_line, the last ends at the parent's end_line, and each
\* starts one line after the previous one ends.
C1_SubChunksPartitionParent ==
    Returned =>
        /\ chunks # <<>>
        /\ chunks[1].start_line = chunk.start_line
        /\ chunks[Len(chunks)].end_line = chunk.end_line
        /\ \A k \in 2..Len(chunks) : chunks[k].start_line = chunks[k - 1].end_line + 1

\* Sum of the per-line token estimates
RECURSIVE LineTokenSum(_)
LineTokenSum(ls) ==
    IF ls = <<>> THEN 0 ELSE estimate_tokens(Head(ls)) + LineTokenSum(Tail(ls))

\* C5 as stated: a chunk whose tokens exceed the budget is split into more than one
\* sub-chunk.
C5_OverBudgetIsSplit ==
    (Returned /\ chunk.tokens > target_size) => Len(chunks) > 1

SplittableByLines ==
    /\ chunk.tokens > target_size
    /\ Len(Lines(chunk.text)) >= 2
    /\ LineTokenSum(Lines(chunk.text)) > target_size

\* C5 amended: a chunk whose tokens exceed the budget, whose text has at least two
\* lines and whose per-line estimates sum to more than the budget, is split into more
\* than one sub-chunk.
C5_OverBudgetLinesAreSplit ==
    (Returned /\ SplittableByLines) => Len(chunks) > 1

C5_Witness ==
    /\ pc = "split"
    /\ SplittableByLines
    /\ Len(chunks) > 1

\* C8: a chunk within budget comes back as the one-element sequence holding the input,
\* equal in every field, and splitting that result again changes nothing.
C8_WithinBudgetUnchanged ==
    (Returned /\ chunk.tokens <= target_size) =>
        /\ chunks = <<chunk>>
        /\ pc = "resplit" => again = chunks

C8_Witness ==
    /\ pc = "resplit"
    /\ chunk.tokens = target_size
    /\ chunk.tokens > 0
    /\ Len(Lines(chunk.text)) >= 2
    /\ again = <<chunk>>

(***************************************************************************)
(* Properties of chunk_code, checked under Spec (descriptors inside the    *)
(* source) and DegradedSpec (any descriptors)                              *)
(***************************************************************************)
IsClassChunk(c) == c.classes # <<>>
IsFunctionChunk(c) == c.classes = <<>> /\ c.functions # <<>>
IsFillerChunk(c) == c.classes = <<>> /\ c.functions = <<>>

SourceLines == Lines(source)

Contains(class, func) ==
    class.start_line <= func.start_line /\ func.end_line <= class.end_line

InSomeClass(func) == \E i \in 1..Len(classes) : Contains(classes[i], func)

\* C2: no two structural chunks (class chunks and standalone-function chunks) have
\* line ranges that share a source line.
C2_StructuralChunksDisjoint ==
    \A j, k \in 1..Len(chunks) :
        (j < k /\ ~IsFillerChunk(chunks[j]) /\ ~IsFillerChunk(chunks[k])) =>
            \/ chunks[j].end_line < chunks[k].start_line
            \/ chunks[k].end_line < chunks[j].start_line

\* The smallest index c with max(0, s - 3) <= c <= s such that every line in [c, s)
\* is a context line
ClaimedContextStart(lines, s) ==
    LET ok == {c \in Max(0, s - 3)..s : \A k \in c..(s - 1) : IsContextLine(lines[k + 1])}
    IN CHOOSE c \in ok : \A d \in ok : c <= d

\* C3: the context of a standalone-function chunk starts at the smallest index c within
\* 3 lines above the construct such that every line from c up to the construct is blank
\* or a comment line.
C3_ContextIsQualifyingRunAbove ==
    \A k \in 1..Len(chunks) :
        IsFunctionChunk(chunks[k]) =>
            chunks[k].start_line - 1
                = ClaimedContextStart(SourceLines, chunks[k].functions[1].start_line - 1)

FunctionChunkEmitted ==
    pc = "functions" /\ pc' = "functions" /\ Len(chunks') = Len(chunks) + 1

\* C4 as stated: emitting a standalone-function chunk marks exactly the construct's own
\* lines [func.start_line, func.end_line] covered and leaves every other entry, the
\* attached context lines included, unchanged.
C4_MarksOnlyConstructLines ==
    [][FunctionChunkEmitted =>
         \A k \in 1..Len(covered_lines) :
            covered_lines'[k] =
                (covered_lines[k]
                 \/ (functions[idx].start_line <= k /\ k <= functions[idx].end_line))]_vars

\* C4 amended: emitting a standalone-function chunk marks every line of the chunk's
\* range [context_start, func.end_line] covered, the attached context lines as well as
\* the construct's own lines, and leaves every other entry unchanged.
C4_MarksWholeChunkRange ==
    [][FunctionChunkEmitted =>
         \A k \in 1..Len(covered_lines) :
            covered_lines'[k] =
                (covered_lines[k]
                 \/ (chunks'[Len(chunks')].start_line <= k /\ k <= functions[idx].end_line))]_vars

C4_Witness ==
    /\ pc = "functions"
    /\ classes = <<>>
    /\ Len(chunks) = 1
    /\ chunks[1].start_line < chunks[1].functions[1].start_line
    /\ \A k \in 1..Len(covered_lines) :
          covered_lines[k] = (chunks[1].start_line <= k /\ k <= chunks[1].end_line)

\* C6: chunk_code never fails, whatever line bounds the descriptors carry, and an empty
\* source with no descriptors gives an empty result.
C6_ChunkNeverFails ==
    /\ pc # "panic"
    /\ (pc = "done" /\ source = <<>> /\ classes = <<>> /\ functions = <<>>) => chunks = <<>>

StandaloneCount(f) ==
    Cardinality({k \in 1..Len(chunks) :
                    chunks[k].functions = <<f>> /\ chunks[k].classes = <<>>})

\* The function loop has gone past functions[j]
Processed(j) == pc = "done" \/ (pc = "functions" /\ idx > j)

\* The function loop has not come to functions[j] yet
NotReached(j) == pc = "classes" \/ (pc = "functions" /\ idx <= j)

\* C7: a function descriptor contained in a class descriptor's range never gets a
\* standalone chunk; every other function descriptor has exactly one, from the moment
\* the function loop has passed it, and so in the result.
C7_NestedFunctionsSkipped ==
    \A j \in 1..Len(functions) :
        /\ InSomeClass(functions[j]) => StandaloneCount(functions[j]) = 0
        /\ (Processed(j) /\ ~InSomeClass(functions[j])) => StandaloneCount(functions[j]) = 1
        /\ NotReached(j) => StandaloneCount(functions[j]) = 0

C7_Witness ==
    /\ pc = "done"
    /\ \E j, k \in 1..Len(functions) : InSomeClass(functions[j]) /\ ~InSomeClass(functions[k])

ValidDescriptors ==
    LET n == Len(SourceLines)
    IN /\ \A j \in 1..Len(functions) :
             /\ 1 <= functions[j].start_line
             /\ functions[j].start_line <= functions[j].end_line
             /\ functions[j].end_line <= n
       /\ \A j \in 1..Len(classes) :
             /\ 1 <= classes[j].start_line
             /\ classes[j].start_line <= classes[j].end_line
             /\ classes[j].end_line <= n

\* C9: with descriptors inside the source, every chunk has start_line <= end_line and
\* its text is the newline-join of source lines start_line..end_line.
C9_TextIsJoinOfLineRange ==
    LET lines == SourceLines
    IN ValidDescriptors =>
          \A k \in 1..Len(chunks) :
              /\ chunks[k].start_line <= chunks[k].end_line
              /\ chunks[k].text = Join(SubSeq(lines, chunks[k].start_line, chunks[k].end_line))

C9_Witness ==
    /\ pc = "done"
    /\ ValidDescriptors
    /\ \E k \in 1..Len(chunks) : IsClassChunk(chunks[k])
    /\ \E k \in 1..Len(chunks) :
          /\ IsFunctionChunk(chunks[k])
          /\ chunks[k].start_line < chunks[k].functions[1].start_line
    /\ \E k \in 1..Len(chunks) : IsFillerChunk(chunks[k])

Rank(c) == IF IsClassChunk(c) THEN 0 ELSE IF IsFunctionChunk(c) THEN 1 ELSE 2

NotInClass(f) == ~InSomeClass(f)

\* C10: class chunks come first, then standalone-function chunks, then filler chunks;
\* class chunks follow the extractor order of the class descriptors and function chunks
\* the extractor order of the function descriptors that are in no class.
C10_EmissionOrder ==
    LET cc == SelectSeq(chunks, IsClassChunk)
        fc == SelectSeq(chunks, IsFunctionChunk)
        standalone == SelectSeq(functions, NotInClass)
    IN /\ \A j, k \in 1..Len(chunks) : j < k => Rank(chunks[j]) <= Rank(chunks[k])
       /\ Len(cc) <= Len(classes)
       /\ \A j \in 1..Len(cc) : cc[j].classes = <<classes[j]>>
       /\ Len(fc) <= Len(standalone)
       /\ \A j \in 1..Len(fc) : fc[j].functions = <<standalone[j]>>
       /\ pc = "done" => (Len(cc) = Len(classes) /\ Len(fc) = Len(standalone))

C10_Witness ==
    /\ pc = "done"
    /\ Len(SelectSeq(chunks, IsClassChunk)) = 2
    /\ \E k \in 1..Len(chunks) : IsFunctionChunk(chunks[k])
    /\ \E k \in 1..Len(chunks) : IsFillerChunk(chunks[k])
    /\ \E j, k \in 1..Len(chunks) : j < k /\ chunks[j].start_line > chunks[k].start_line

(***************************************************************************)
(* Properties of the language registry, checked under LanguageSpec         *)
(***************************************************************************)
RECURSIVE Elements(_)
Elements(seq) == IF seq = <<>> THEN {} ELSE {Head(seq)} \cup Elements(Tail(seq))

\* C11: an id that is_supported reports as unsupported gets the default (TypeScript)
\* configuration, and is_supported is true exactly for the ids supported_languages lists.
C11_UnsupportedIdsGetDefault ==
    /\ (lookup.config # <<>> /\ lookup.supported = <<FALSE>>) =>
          lookup.config[1] = LanguageConfig_typescript
    /\ (lookup.supported # <<>> /\ lookup.listed # <<>>) =>
          (lookup.supported[1] <=> language \in Elements(lookup.listed[1]))

(***************************************************************************)
(* Properties of the filler chunks, checked under LongSpec                 *)
(***************************************************************************)
LineRange(c) == [start_line |-> c.start_line, end_line |-> c.end_line]

FillerChunks == SelectSeq(chunks, IsFillerChunk)

FillerRanges == {LineRange(FillerChunks[k]) : k \in 1..Len(FillerChunks)}

\* First and last lines (1-based) of the maximal runs of uncovered lines
RunStarts ==
    {a \in 1..Len(covered_lines) :
        ~covered_lines[a] /\ (a = 1 \/ covered_lines[a - 1])}

RunEnds ==
    {b \in 1..Len(covered_lines) :
        ~covered_lines[b] /\ (b = Len(covered_lines) \/ covered_lines[b + 1])}

RunEnd(a) == CHOOSE b \in RunEnds : b >= a /\ \A e \in RunEnds : e >= a => b <= e

\* The run a..b cut into windows of MAX_LINES_PER_CHUNK lines, the last one the remainder
WindowsOf(a, b) ==
    {[start_line |-> a + MAX_LINES_PER_CHUNK * j,
      end_line |-> Min(a + MAX_LINES_PER_CHUNK * j + MAX_LINES_PER_CHUNK - 1, b)] :
        j \in 0..((b - a) \div MAX_LINES_PER_CHUNK)}

WindowIsEmitted(w) ==
    Len(Trim(Join(SubSeq(SourceLines, w.start_line, w.end_line)))) >= MIN_CHUNK_SIZE

\* The windows of every run of at least MIN_LINES_PER_CHUNK lines
RunWindows ==
    UNION {WindowsOf(a, RunEnd(a)) :
             a \in {s \in RunStarts : RunEnd(s) - s + 1 >= MIN_LINES_PER_CHUNK}}

C13_FillerSpansMinLines ==
    \A k \in 1..Len(chunks) :
        IsFillerChunk(chunks[k]) =>
            chunks[k].end_line - chunks[k].start_line + 1 >= MIN_LINES_PER_CHUNK

Disjoint(c, d) == c.end_line < d.start_line \/ d.end_line < c.start_line

\* C14: a filler chunk shares no source line with any other chunk: not with a class
\* chunk, not with a standalone-function chunk (its context lines included), and not
\* with another filler chunk.
C14_FillerChunksDisjoint ==
    \A j, k \in 1..Len(chunks) :
        (j # k /\ IsFillerChunk(chunks[j])) => Disjoint(chunks[j], chunks[k])

\* Two filler chunks returned after a class chunk and a function chunk carrying context
C14_Witness ==
    /\ pc = "done"
    /\ Len(FillerChunks) >= 2
    /\ \E k \in 1..Len(chunks) : IsClassChunk(chunks[k])
    /\ \E k \in 1..Len(chunks) :
          /\ IsFunctionChunk(chunks[k])
          /\ chunks[k].start_line < chunks[k].functions[1].start_line

(***************************************************************************)
(* Properties of the sub-chunks' tokens, checked under SplitSpec           *)
(***************************************************************************)
\* Index (0-based) in the parent's lines of the first line sub-chunk k holds, and of the
\* line after its last one: the sub-chunks follow one another through the parent's lines
HeldFrom(k) == chunks[k].start_line - chunk.start_line

HeldUntil(k) == IF k < Len(chunks) THEN HeldFrom(k + 1) ELSE Len(Lines(chunk.text))

HeldLines(k) == Slice(Lines(chunk.text), HeldFrom(k), HeldUntil(k))

\* C15: when split_large_chunk splits (the chunk's tokens exceed the budget), every
\* sub-chunk holds at least one line of the parent, its text is those lines joined, its
\* tokens field is the sum of their per-line estimates, and a sub-chunk holding two or
\* more lines has tokens within the budget: only a one-line sub-chunk can exceed it.
C15_SubChunkTokensAreLineSums ==
    (Returned /\ chunk.tokens > target_size) =>
        /\ chunks # <<>> => HeldFrom(1) = 0
        /\ \A k \in 1..Len(chunks) :
              /\ Len(HeldLines(k)) >= 1
              /\ chunks[k].text = Join(HeldLines(k))
              /\ chunks[k].tokens = LineTokenSum(HeldLines(k))
              /\ Len(HeldLines(k)) >= 2 => chunks[k].tokens <= target_size

\* A split returning a one-line sub-chunk over the budget and a sub-chunk of two lines
C15_Witness ==
    /\ pc = "split"
    /\ chunk.tokens > target_size
    /\ \E k \in 1..Len(chunks) :
          Len(HeldLines(k)) = 1 /\ chunks[k].tokens > target_size
    /\ \E k \in 1..Len(chunks) :
          Len(HeldLines(k)) >= 2 /\ chunks[k].tokens = target_size

====
